---- MODULE Spec2Model ----
(***************************************************************************)
(* State-machine model of memetrain.py: the MemeTrain game object, its     *)
(* menu, the per-frame loop (handle_events, move_snake, draw_objects) and  *)
(* the blocking wait of _exit_after_win_lose.                              *)
(*                                                                         *)
(* Rendering, image loading and audio are calls into pygame that return    *)
(* without changing the game object; they are not modelled, except that    *)
(* snake_images keeps the name of the car image appended per pickup.       *)
(* snake_speed (set_difficulty) only sets the frame rate and is left out.  *)
(*                                                                         *)
(* The assets directory is not part of the source: MEMES and TEAMS are a   *)
(* small pool with two drivers of one team, the bonus driver among them,   *)
(* and one image (toto2.png, which snake_collision loads from the memes    *)
(* directory) whose name has no entry in TEAMS.  The directory listing is  *)
(* fixed when the module is loaded; memes holds it, and a run starts with  *)
(* either that pool or a directory of a single image.                      *)
(***************************************************************************)
EXTENDS Integers, Sequences, FiniteSets, TLC

(***************************************************************************)
(* Bounds of the model.  The grid is screen size // GRID_SIZE in the       *)
(* program; the smallest grid on which __init__ terminates is 6 x 5.      *)
(***************************************************************************)
grid_width == 6
grid_height == 5
\* longest snake explored: a pickup frame is taken only below this length
MaxLen == 4
\* most events returned by one pygame.event.get()
MaxEvents == 2

(***************************************************************************)
(* Program constants.                                                      *)
(***************************************************************************)
GRID_SIZE == 60
MEME_WIDTH == 150

\* TEAMS.get(driver, None) for a driver with no entry
None == "None"

(***************************************************************************)
(* File paths are sequences of chunks, so that the substring test, the     *)
(* basename and the digit stripping of Meme.__init__ are computed.         *)
(***************************************************************************)
MemesDir == "assets/memes/"
Digits == {"1", "2", "3", "4"}

MemePath(name, digit) == <<MemesDir, name, digit, ".png">>

\* os.listdir(MEMES_PATH): the pool of meme images
MEMES == { MemePath("perez", "1"), MemePath("verstappen", "1"), MemePath("toto", "2") }

\* a memes directory that holds one image only
OneMeme == { MemePath("perez", "1") }

\* the directory listings a run can start with
Pools == { MEMES, OneMeme }

\* drivers.json as driver -> team
TEAMS == [d \in {<<"perez">>, <<"verstappen">>} |-> "redbull"]

TeamValues == { TEAMS[d] : d \in DOMAIN TEAMS }

\* an exclude_image list that excludes nothing
InitExclude_Empty == {}

\* the exclude_image list of MemeTrain.__init__
InitExclude == { MemePath("verstappen", d) : d \in Digits }

\* a in b for two str: a is a contiguous part of b
IsSubstring(a, b) ==
    \E i \in 0..(Len(b) - Len(a)) : \A k \in 1..Len(a) : b[i + k] = a[k]

\* os.path.basename: what follows the last directory chunk
Basename(p) ==
    LET dirs == { i \in 1..Len(p) : p[i] = MemesDir }
        last == IF dirs = {} THEN 0 ELSE CHOOSE i \in dirs : \A j \in dirs : j <= i
    IN  SubSeq(p, last + 1, Len(p))

\* str.replace('.png', '')
StripPng(p) == SelectSeq(p, LAMBDA c : c # ".png")

\* re.sub(r'[0-9]', '', s)
StripDigits(p) == SelectSeq(p, LAMBDA c : c \notin Digits)

DriverName(meme_image) == StripDigits(Basename(StripPng(meme_image)))

TeamOf(meme_image) ==
    LET d == DriverName(meme_image)
    IN  IF d \in DOMAIN TEAMS THEN TEAMS[d] ELSE None

\* int(width / aspect_ratio) of the loaded image: boxes of one and two rows
ImageHeight(meme_image) ==
    IF DriverName(meme_image) = <<"perez">> THEN 100
    ELSE IF DriverName(meme_image) = <<"verstappen">> THEN 84
    ELSE 50

\* Meme(x, y, width, exclude_image) once an image has been chosen
Meme(x, y, width, meme_image) ==
    [ x |-> x, y |-> y, width |-> width, height |-> ImageHeight(meme_image),
      meme_image |-> meme_image, driver_name |-> DriverName(meme_image),
      team |-> TeamOf(meme_image) ]

\* Meme.meme_box.intersects(Point(px, py)): closed rectangle
BoxIntersects(m, px, py) ==
    /\ m.x * GRID_SIZE <= px /\ px <= m.x * GRID_SIZE + m.width
    /\ m.y * GRID_SIZE <= py /\ py <= m.y * GRID_SIZE + m.height

\* RandomGridPositions without the margin of two cells
RandomGridPositions_NoMargin == (0..(grid_width - 1)) \X (0..(grid_height - 1))

\* the values random_grid_position can return
RandomGridPositions == (2..(grid_width - 3)) \X (2..(grid_height - 3))

Centre == <<grid_width \div 2, grid_height \div 2>>

Up == <<0, -1>>
Down == <<0, 1>>
Left == <<-1, 0>>
Right == <<1, 0>>

Events == {"QUIT", "K_ESCAPE", "K_UP", "K_DOWN", "K_LEFT", "K_RIGHT", "K_SPACE"}

\* the lists pygame.event.get() can return
EventLists == UNION { [1..n -> Events] : n \in 0..MaxEvents }

VARIABLES
    pc,               \* where control is: menu, handle_events, move_snake,
                      \* draw_objects, wait_win, wait_lose, exited, crashed
    running,
    menu_enabled,
    snake,
    snake_images,
    snake_direction,
    meme,
    super_max,
    teams_collected,
    memes,            \* the module's MEMES list, fixed at load
    last_event,       \* the event handled last in this frame or wait
    prev_direction,   \* snake_direction when that event was taken up
    picked,           \* <<the meme collected>> by the last move_snake, or <<>>
    spawned           \* the step that led here constructed a Meme

vars == <<pc, running, menu_enabled, snake, snake_images, snake_direction,
          meme, super_max, teams_collected, memes, last_event, prev_direction,
          picked, spawned>>

\* random.choice candidates when exclude_image is a list
ChoicesExcludingList(exclude_image) == { m \in memes : m \notin exclude_image }

\* ChoicesExcludingStr that ignores exclude_image
ChoicesExcludingStr_NoExclusion(exclude_image) == memes

\* random.choice candidates when exclude_image is a str
ChoicesExcludingStr(exclude_image) == { m \in memes : ~IsSubstring(m, exclude_image) }

(***************************************************************************)
(* MemeTrain.__init__                                                      *)
(***************************************************************************)
Init ==
    /\ memes \in Pools
    /\ pc = "menu"
    /\ running = FALSE
    /\ menu_enabled = TRUE
    /\ snake = <<Centre>>
    /\ snake_images = <<"safetycar">>
    /\ snake_direction = Down
    /\ \E p \in RandomGridPositions :
         /\ ~(p[1] = Centre[1] /\ p[2] = Centre[2])
         /\ \E img \in ChoicesExcludingList(InitExclude) :
              meme = Meme(p[1], p[2], MEME_WIDTH, img)
    /\ super_max = FALSE
    /\ teams_collected = <<>>
    /\ last_event = "none"
    /\ prev_direction = Down
    /\ picked = <<>>
    /\ spawned = TRUE

\* StartGame that leaves teams_collected as the last session left it
StartGame_KeepsTeams ==
    /\ pc = "menu"
    /\ running' = TRUE
    /\ snake' = <<Centre>>
    /\ snake_images' = <<"safetycar">>
    /\ snake_direction' = Down
    /\ menu_enabled' = FALSE
    /\ pc' = "handle_events"
    /\ last_event' = "none"
    /\ prev_direction' = Down
    /\ picked' = <<>>
    /\ spawned' = FALSE
    /\ UNCHANGED <<teams_collected, meme, super_max, memes>>

(***************************************************************************)
(* The menu: the Play button calls start_game, the Quit button ends the    *)
(* program.                                                                *)
(***************************************************************************)
StartGame ==
    /\ pc = "menu"
    /\ running' = TRUE
    /\ snake' = <<Centre>>
    /\ snake_images' = <<"safetycar">>
    /\ teams_collected' = <<>>
    /\ snake_direction' = Down
    /\ menu_enabled' = FALSE
    /\ pc' = "handle_events"
    /\ last_event' = "none"
    /\ prev_direction' = Down
    /\ picked' = <<>>
    /\ spawned' = FALSE
    /\ UNCHANGED <<meme, super_max, memes>>

MenuQuit ==
    /\ pc = "menu"
    /\ pc' = "exited"
    /\ UNCHANGED <<running, menu_enabled, snake, snake_images, snake_direction,
                   meme, super_max, teams_collected, memes, last_event,
                   prev_direction, picked, spawned>>

(***************************************************************************)
(* handle_events                                                           *)
(***************************************************************************)
\* KeyDown with the guard of K_UP comparing against Up instead of Down
KeyDown_WrongGuard(direction, key) ==
    IF key = "K_UP" /\ direction # Up THEN Up
    ELSE IF key = "K_DOWN" /\ direction # Up THEN Down
    ELSE IF key = "K_LEFT" /\ direction # Right THEN Left
    ELSE IF key = "K_RIGHT" /\ direction # Left THEN Right
    ELSE direction

\* the elif chain of the arrow keys: the direction after one KEYDOWN
KeyDown(direction, key) ==
    IF key = "K_UP" /\ direction # Down THEN Up
    ELSE IF key = "K_DOWN" /\ direction # Up THEN Down
    ELSE IF key = "K_LEFT" /\ direction # Right THEN Left
    ELSE IF key = "K_RIGHT" /\ direction # Left THEN Right
    ELSE direction

\* the for loop over the drained events; h holds the fields the loop writes
RECURSIVE HandleEventList(_, _)
HandleEventList(evs, h) ==
    IF evs = <<>> THEN h
    ELSE LET e == Head(evs)
             h1 == [h EXCEPT !.last_event = e, !.prev_direction = h.snake_direction]
         IN  IF e = "QUIT"
             THEN [h1 EXCEPT !.running = FALSE, !.exited = TRUE]
             ELSE IF e = "K_ESCAPE"
             THEN HandleEventList(Tail(evs),
                     [h1 EXCEPT !.running = FALSE, !.menu_enabled = TRUE])
             ELSE HandleEventList(Tail(evs),
                     [h1 EXCEPT !.snake_direction = KeyDown(h.snake_direction, e)])

HandleEvents ==
    /\ pc = "handle_events"
    /\ \E evs \in EventLists :
         LET h == HandleEventList(evs,
                     [ running |-> running, menu_enabled |-> menu_enabled,
                       snake_direction |-> snake_direction, exited |-> FALSE,
                       last_event |-> "none", prev_direction |-> snake_direction ])
         IN  /\ running' = h.running
             /\ menu_enabled' = h.menu_enabled
             /\ snake_direction' = h.snake_direction
             /\ last_event' = h.last_event
             /\ prev_direction' = h.prev_direction
             /\ pc' = IF h.exited THEN "exited" ELSE "move_snake"
    /\ picked' = <<>>
    /\ spawned' = FALSE
    /\ UNCHANGED <<snake, snake_images, meme, super_max, teams_collected, memes>>

(***************************************************************************)
(* move_snake                                                              *)
(***************************************************************************)
\* NewHead without the wrap
NewHead_NoWrap(head, direction) ==
    << head[1] + direction[1], head[2] + direction[2] >>

\* new_head after the wrap around the screen
NewHead(head, direction) ==
    << (head[1] + direction[1]) % grid_width, (head[2] + direction[2]) % grid_height >>

\* meme_collision()
MemeCollision(m, s) == BoxIntersects(m, s[1][1] * GRID_SIZE, s[1][2] * GRID_SIZE)

Range(s) == { s[i] : i \in 1..Len(s) }

\* Counter(s)[v]
Count(v, s) == Cardinality({ i \in 1..Len(s) : s[i] = v })

\* the two nested tests that lead to win()
WinTest(collected) ==
    /\ Range(collected) = TeamValues
    /\ \A v \in Range(collected) : Count(v, collected) >= 2

\* SnakeCollision that misses a single duplicate
SnakeCollision_OffByOne(s) == Len(s) > Cardinality(Range(s)) + 1

\* the test of snake_collision()
SnakeCollision(s) == Len(s) # Cardinality(Range(s))

\* Resample that never draws again
Resample_Never(p, s, m) == FALSE

\* the condition of the while loop that draws the new meme's position again
Resample(p, s, m) ==
    /\ (p[1] = s[1][1] /\ p[2] = s[1][2])
    /\ BoxIntersects(m, p[1] * GRID_SIZE, p[2] * GRID_SIZE)

\* Pop that removes the head instead of the tail
Pop_Front(s) == Tail(s)

\* Pop that removes nothing
Pop_Nothing(s) == s

\* snake.pop()
Pop(s) == SubSeq(s, 1, Len(s) - 1)

\* how a frame that called win() ends, with the collision test run first
WinEnd_CollisionFirst(s) == IF SnakeCollision(s) THEN "wait_lose" ELSE "wait_win"

\* return self.win(): the frame ends in the wait of win()
WinEnd(s) == "wait_win"

\* self.snake_collision() at the end of move_snake
FrameEnd(s) == IF SnakeCollision(s) THEN "wait_lose" ELSE "draw_objects"

MoveSnake ==
    /\ pc = "move_snake"
    /\ LET grown == <<NewHead(snake[1], snake_direction)>> \o snake
       IN  IF MemeCollision(meme, grown)
           THEN /\ Len(snake) < MaxLen
                /\ snake' = grown
                /\ snake_images' = Append(snake_images, meme.team)
                /\ teams_collected' = Append(teams_collected, meme.team)
                /\ picked' = <<meme>>
                /\ IF WinTest(teams_collected')
                   THEN /\ pc' = WinEnd(grown)
                        /\ spawned' = FALSE
                        /\ UNCHANGED <<meme, super_max>>
                   ELSE IF ChoicesExcludingStr(meme.meme_image) = {}
                   THEN \* random.choice of an empty list raises IndexError
                        /\ pc' = "crashed"
                        /\ spawned' = FALSE
                        /\ UNCHANGED <<meme, super_max>>
                   ELSE /\ \E p \in RandomGridPositions :
                             /\ ~Resample(p, grown, meme)
                             /\ \E img \in ChoicesExcludingStr(meme.meme_image) :
                                  meme' = Meme(p[1], p[2], MEME_WIDTH, img)
                        /\ super_max' = (meme'.driver_name = <<"verstappen">>)
                        /\ spawned' = TRUE
                        /\ pc' = FrameEnd(grown)
           ELSE /\ snake' = Pop(grown)
                /\ pc' = FrameEnd(snake')
                /\ picked' = <<>>
                /\ spawned' = FALSE
                /\ UNCHANGED <<snake_images, teams_collected, meme, super_max>>
    /\ last_event' = "none"
    /\ prev_direction' = snake_direction
    /\ UNCHANGED <<running, menu_enabled, snake_direction, memes>>

(***************************************************************************)
(* _exit_after_win_lose: one pass of the while loop over the drained       *)
(* events.  Only KEYDOWN of K_SPACE is handled: exit_to_menu, return.      *)
(***************************************************************************)
\* IsAck that takes any KEYDOWN
IsAck_AnyKey(e) == e # "QUIT"

\* event.type == pygame.KEYDOWN and event.key == pygame.K_SPACE
IsAck(e) == e = "K_SPACE"

ExitAfterWinLose ==
    /\ pc \in {"wait_win", "wait_lose"}
    /\ \E evs \in EventLists :
         IF \E i \in 1..Len(evs) : IsAck(evs[i])
         THEN LET first == CHOOSE i \in 1..Len(evs) :
                             /\ IsAck(evs[i])
                             /\ \A j \in 1..(i - 1) : ~IsAck(evs[j])
              IN  /\ running' = FALSE
                  /\ menu_enabled' = TRUE
                  /\ last_event' = evs[first]
                  /\ pc' = "draw_objects"
         ELSE /\ last_event' = IF evs = <<>> THEN last_event ELSE evs[Len(evs)]
              /\ UNCHANGED <<running, menu_enabled, pc>>
    /\ UNCHANGED <<snake, snake_images, snake_direction, meme, super_max,
                   teams_collected, memes, prev_direction, picked, spawned>>

(***************************************************************************)
(* The rest of the loop body of main_loop (draw_objects, clock.tick), the  *)
(* loop test, and the return to the menu.                                  *)
(***************************************************************************)
DrawObjects ==
    /\ pc = "draw_objects"
    /\ pc' = IF running THEN "handle_events"
             ELSE IF menu_enabled THEN "menu" ELSE "exited"
    /\ last_event' = "none"
    /\ prev_direction' = snake_direction
    /\ picked' = <<>>
    /\ spawned' = FALSE
    /\ UNCHANGED <<running, menu_enabled, snake, snake_images, snake_direction,
                   meme, super_max, teams_collected, memes>>

Next ==
    \/ StartGame
    \/ MenuQuit
    \/ HandleEvents
    \/ MoveSnake
    \/ ExitAfterWinLose
    \/ DrawObjects

Spec == Init /\ [][Next]_vars

\* Menu, Playing, GameOver, Win as the program's fields show them
GameState ==
    IF pc = "exited" THEN "Exited"
    ELSE IF pc = "crashed" THEN "Crashed"
    ELSE IF pc = "wait_win" THEN "Win"
    ELSE IF pc = "wait_lose" THEN "GameOver"
    ELSE IF running THEN "Playing"
    ELSE "Menu"

TypeOK ==
    /\ pc \in {"menu", "handle_events", "move_snake", "draw_objects",
               "wait_win", "wait_lose", "exited", "crashed"}
    /\ running \in BOOLEAN
    /\ menu_enabled \in BOOLEAN
    /\ Len(snake) >= 1
    /\ snake_direction \in {Up, Down, Left, Right}
    /\ super_max \in BOOLEAN
    /\ last_event \in Events \cup {"none"}

(***************************************************************************)
(* Properties                                                              *)
(***************************************************************************)
\* the snake with the new head inserted, as move_snake tests it for a pickup
Grown == <<NewHead(snake[1], snake_direction)>> \o snake

\* move_snake is about to run and its new head lies in the meme's box
PickupFrame == pc = "move_snake" /\ MemeCollision(meme, Grown)

HasDuplicate(s) == \E i, j \in 1..Len(s) : i < j /\ s[i] = s[j]

InGrid(p) == 0 <= p[1] /\ p[1] < grid_width /\ 0 <= p[2] /\ p[2] < grid_height

Opposite(d) == <<0 - d[1], 0 - d[2]>>

ArrowKeys == {"K_UP", "K_DOWN", "K_LEFT", "K_RIGHT"}

Delta(key) ==
    IF key = "K_UP" THEN Up
    ELSE IF key = "K_DOWN" THEN Down
    ELSE IF key = "K_LEFT" THEN Left
    ELSE Right

\* C1: for a snake of length >= 2, the new head that move_snake inserts is
\* never the cell of the segment that was directly behind the head.
C1_NoReversalIntoSelf ==
    [][(pc = "move_snake" /\ Len(snake) >= 2) => snake'[1] # snake[2]]_vars

\* C2: once Escape has been drained in a frame (running is False when
\* move_snake is reached), the rest of the frame is skipped: the snake, the
\* collected teams and the meme stay as they are and no wait is entered.
C2_EscapeSkipsFrame ==
    [][(pc = "move_snake" /\ ~running) =>
          /\ snake' = snake
          /\ teams_collected' = teams_collected
          /\ meme' = meme
          /\ pc' \notin {"wait_win", "wait_lose"}]_vars

\* C3: a pickup appends the meme's team to teams_collected when the team is
\* not None, and leaves teams_collected unchanged when it is None.
C3_PickupRecordsTeam ==
    [][(PickupFrame /\ pc' # pc) =>
          teams_collected' = IF meme.team # None
                             THEN Append(teams_collected, meme.team)
                             ELSE teams_collected]_vars

\* C4: after a pickup, win() is entered if and only if every value of TEAMS
\* occurs at least twice in teams_collected.
C4_WinIffEveryTeamTwice ==
    [][(PickupFrame /\ pc' # pc) =>
          ((pc' = "wait_win") <=>
             \A t \in TeamValues : Count(t, teams_collected') >= 2)]_vars

\* C5: in Win the collected teams are exactly the known teams, each at least
\* twice; and Win is entered only from Playing, in a pickup frame.
C5_WinOnlyWhenComplete ==
    /\ [](GameState = "Win" =>
            /\ Range(teams_collected) = TeamValues
            /\ \A t \in TeamValues : Count(t, teams_collected) >= 2)
    /\ [][(GameState' = "Win" /\ GameState # "Win") =>
            (GameState = "Playing" /\ PickupFrame)]_vars

\* C6: a move_snake that does not end in Win ends in GameOver if and only if
\* the finalized snake holds two equal positions.
C6_GameOverIffDuplicate ==
    [][(pc = "move_snake" /\ pc' # pc) =>
          ((pc' = "wait_lose") <=> (pc' # "wait_win" /\ HasDuplicate(snake')))]_vars

C6_Witness == pc = "wait_lose" /\ HasDuplicate(snake) /\ Len(snake) >= 3

\* C7: every snake segment lies inside the grid, and the new head is the old
\* head moved one cell, re-entering at the opposite edge when it leaves one.
C7_SegmentsInGrid ==
    /\ [](\A i \in 1..Len(snake) : InGrid(snake[i]))
    /\ [][(pc = "move_snake" /\ pc' # pc) =>
            LET x == snake[1][1] + snake_direction[1]
                y == snake[1][2] + snake_direction[2]
            IN  snake'[1] =
                  << IF x < 0 THEN grid_width - 1 ELSE IF x >= grid_width THEN 0 ELSE x,
                     IF y < 0 THEN grid_height - 1 ELSE IF y >= grid_height THEN 0 ELSE y >>]_vars

\* the head has just left the left edge and re-entered at the right edge
C7_Witness ==
    /\ pc = "draw_objects"
    /\ Len(snake) >= 2
    /\ snake_direction = Left
    /\ snake[2][1] = 0
    /\ snake[1] = <<grid_width - 1, snake[2][2]>>

\* C8: after handle_events, the last arrow key drained left snake_direction
\* as it was if it asked for the opposite direction, and otherwise set it to
\* the key's unit delta.
C8_DirectionGuard ==
    (pc = "move_snake" /\ last_event \in ArrowKeys) =>
        IF Delta(last_event) = Opposite(prev_direction)
        THEN snake_direction = prev_direction
        ELSE snake_direction = Delta(last_event)

C8_Witness ==
    /\ pc = "move_snake"
    /\ last_event = "K_UP"
    /\ prev_direction = Down
    /\ snake_direction = Down

\* C9: GameOver and Win are left only for Menu, and only by K_SPACE.
C9_TerminalOnlyToMenuBySpace ==
    [][(GameState = "Win" \/ GameState = "GameOver") =>
          (GameState' = GameState \/ (GameState' = "Menu" /\ last_event' = "K_SPACE"))]_vars

\* the wait has just been left by K_SPACE
C9_Witness ==
    /\ pc = "draw_objects"
    /\ last_event = "K_SPACE"
    /\ GameState = "Menu"

\* C10: a QUIT event drained by the wait loop ends the wait.
C10_QuitEndsWait ==
    ~(pc \in {"wait_win", "wait_lose"} /\ last_event = "QUIT")

\* the head's pixel anchor
HeadX == snake[1][1] * GRID_SIZE
HeadY == snake[1][2] * GRID_SIZE

\* start_game has just been called
SessionStart == pc = "menu" /\ pc' = "handle_events"

\* C11: when the pool minus the excluded image is empty, the spawn after a
\* pickup does not fail: an image of the pool is still chosen and a meme made.
C11_EmptyCandidatesFallBack ==
    [][(PickupFrame /\ pc' # pc /\ pc' # "wait_win"
          /\ ChoicesExcludingStr(meme.meme_image) = {}) =>
          (pc' # "crashed" /\ spawned' /\ meme'.meme_image \in memes)]_vars

\* C12: with a pool of at least two images, a pickup that does not win
\* spawns a meme whose image differs from the image just collected.
C12_NewImageDiffers ==
    [][(PickupFrame /\ pc' # pc /\ pc' # "wait_win" /\ Cardinality(memes) >= 2) =>
          (spawned' /\ meme'.meme_image # meme.meme_image)]_vars

C12_Witness ==
    /\ pc = "draw_objects"
    /\ spawned
    /\ Len(picked) = 1
    /\ meme.meme_image # picked[1].meme_image

\* C13: after a pickup that does not win, the new meme's box does not hold
\* the head's anchor and the new meme's anchor is not in the collected
\* meme's box.
C13_NewMemeClearOfHeadAndOldBox ==
    (spawned /\ Len(picked) = 1) =>
        /\ ~BoxIntersects(meme, HeadX, HeadY)
        /\ ~BoxIntersects(picked[1], meme.x * GRID_SIZE, meme.y * GRID_SIZE)

\* C14: when a session is started again from the menu, start_game makes a
\* new meme: the meme of the session before is not carried over.
C14_NewMemeEverySession ==
    [][(SessionStart /\ ~spawned) => spawned']_vars

\* C15: every session starts with the snake as the single segment at the
\* grid centre, the direction Down and no teams collected.
C15_SessionStartsReset ==
    [][SessionStart =>
          /\ snake' = << <<grid_width \div 2, grid_height \div 2>> >>
          /\ snake_direction' = <<0, 1>>
          /\ teams_collected' = <<>>]_vars

\* a session started after one in which a meme was collected
C15_Witness ==
    /\ pc = "handle_events"
    /\ running
    /\ super_max
    /\ snake = <<Centre>>
    /\ snake_direction = Down
    /\ teams_collected = <<>>

\* C16: a move_snake without pickup keeps the length, puts the wrapped new
\* head first, shifts every other segment one place toward the tail, and
\* leaves the meme, teams_collected and super_max as they are.
C16_MoveWithoutPickup ==
    [][(pc = "move_snake" /\ pc' # pc /\ ~MemeCollision(meme, Grown)) =>
          /\ Len(snake') = Len(snake)
          /\ snake'[1] = NewHead(snake[1], snake_direction)
          /\ \A i \in 2..Len(snake) : snake'[i] = snake[i - 1]
          /\ meme' = meme
          /\ teams_collected' = teams_collected
          /\ super_max' = super_max]_vars

\* a snake of two or more segments has just moved without a pickup
C16_Witness ==
    /\ pc = "draw_objects"
    /\ last_event = "none"
    /\ picked = <<>>
    /\ Len(snake) >= 2

\* C17: the snake is never empty, and its length is one more than the
\* number of teams collected and equal to the number of snake images.
C17_LengthCountsPickups ==
    /\ Len(snake) >= 1
    /\ Len(snake) = 1 + Len(teams_collected)
    /\ Len(snake) = Len(snake_images)

C17_Witness ==
    /\ pc = "draw_objects"
    /\ Len(picked) = 1
    /\ Len(snake) = 3
    /\ Len(teams_collected) = 2

\* C18: the meme's grid position keeps a margin of two cells on each axis.
C18_MemeWithinMargin ==
    /\ 2 <= meme.x /\ meme.x <= grid_width - 3
    /\ 2 <= meme.y /\ meme.y <= grid_height - 3

\* a meme spawned after a pickup, at the far corner of the margin
C18_Witness ==
    /\ spawned
    /\ Len(picked) = 1
    /\ meme.x = grid_width - 3
    /\ meme.y = grid_height - 3

\* C19: a pickup that completes the teams ends the frame in the wait of
\* win(): the meme stays, none is spawned, and GameOver is not entered.
C19_WinStopsFrame ==
    [][(PickupFrame /\ pc' # pc
          /\ Range(teams_collected') = TeamValues
          /\ \A t \in TeamValues : Count(t, teams_collected') >= 2) =>
          (pc' = "wait_win" /\ meme' = meme /\ ~spawned')]_vars

\* Win with a snake that holds the same cell twice
C19_Witness ==
    /\ pc = "wait_win"
    /\ Len(picked) = 1
    /\ meme = picked[1]
    /\ HasDuplicate(snake)

\* C20: a meme spawned after a pickup is never at the cell of the head.
C20_NewMemeNotAtHead ==
    (spawned /\ Len(picked) = 1) => <<meme.x, meme.y>> # snake[1]

\* a spawn with the head on a cell that random_grid_position can return
C20_Witness ==
    /\ spawned
    /\ Len(picked) = 1
    /\ snake[1] \in RandomGridPositions

\* C21: super_max is true exactly when the current meme's driver_name is
\* 'verstappen'; the meme made by __init__ is not a verstappen image and
\* super_max is false while that meme is the current one.
C21_SuperMaxIffVerstappen ==
    /\ super_max <=> (meme.driver_name = <<"verstappen">>)
    /\ (spawned /\ picked = <<>>) =>
          (~super_max /\ meme.driver_name # <<"verstappen">>)

\* a session started again while the meme left by the session before is a
\* verstappen image
C21_Witness ==
    /\ pc = "move_snake"
    /\ running
    /\ teams_collected = <<>>
    /\ ~spawned
    /\ super_max
    /\ meme.driver_name = <<"verstappen">>

====
